---------------------------- MODULE Spec2Model ----------------------------
(***************************************************************************)
(* Model of streamlit_app.py (Zipbooks Invoice Parser): process_file and   *)
(* convert_pdf_to_images run by Streamlit sessions that share the working  *)
(* directory and the process-wide genai configuration.                     *)
(*                                                                         *)
(* Texts are sequences of one-character strings.  The response sanitizer   *)
(* (str.strip and the two re.sub calls) and json.loads are modelled on     *)
(* those sequences; json.loads covers objects, arrays, strings without     *)
(* escapes, integers and the literals null/true/false.                     *)
(***************************************************************************)
EXTENDS Integers, Sequences, FiniteSets, TLC

(***************************************************************************)
(* Bounds of the model.                                                    *)
(***************************************************************************)
\* Number of Streamlit sessions (script threads) that may call process_file.
NumSessions == 2
\* Largest page count of an uploaded PDF.
MaxPages == 2
\* Number of times "Process Invoice" is clicked, over all sessions.
MaxRuns == 2

(***************************************************************************)
(* Text helpers.                                                           *)
(***************************************************************************)
\* Whitespace as str.strip(), the regex class \s and json's scanner see it
\* (restricted to the characters the model's texts use).
IsSpace(c) == c \in {" ", "\n", "\t", "\r"}

Drop(s, n) == IF n >= Len(s) THEN <<>> ELSE SubSeq(s, n + 1, Len(s))

Take(s, n) == IF n <= 0 THEN <<>> ELSE SubSeq(s, 1, IF n > Len(s) THEN Len(s) ELSE n)

StartsWith(s, pre) == Len(pre) <= Len(s) /\ SubSeq(s, 1, Len(pre)) = pre

EndsWith(s, suf) ==
    Len(suf) <= Len(s) /\ SubSeq(s, Len(s) - Len(suf) + 1, Len(s)) = suf

RECURSIVE LStrip(_)
LStrip(s) == IF s # <<>> /\ IsSpace(Head(s)) THEN LStrip(Tail(s)) ELSE s

RECURSIVE RStrip(_)
RStrip(s) ==
    IF s # <<>> /\ IsSpace(s[Len(s)]) THEN RStrip(SubSeq(s, 1, Len(s) - 1)) ELSE s

\* str.strip()
Strip(s) == LStrip(RStrip(s))

\* "BQ" is the one character U+0060 (the backquote of a code fence).
Fence == <<"BQ", "BQ", "BQ">>
FenceJson == Fence \o <<"j", "s", "o", "n">>

\* re.sub(r'^<fence>json\s*', '', t): without re.MULTILINE ^ is the start of the
\* text only.
StripOpenFence(t) == IF StartsWith(t, FenceJson) THEN LStrip(Drop(t, Len(FenceJson))) ELSE t

\* re.sub(r'\s*<fence>$', '', t): the text reaching it has no trailing
\* whitespace (it was stripped), so $ is the end of the text.
StripCloseFence(t) == IF EndsWith(t, Fence) THEN RStrip(Take(t, Len(t) - Len(Fence))) ELSE t

\* Lines 165-167.
Sanitize(text) == StripCloseFence(StripOpenFence(Strip(text)))

(***************************************************************************)
(* json.loads.  Values are records [t, v]: t the Python type, v a sequence *)
(* (the members of a dict, the elements of a list, the characters of a     *)
(* str, the one number of an int, the one flag of a bool).                 *)
(***************************************************************************)
PyDict(members) == [t |-> "dict", v |-> members]
PyList(elems) == [t |-> "list", v |-> elems]
PyStr(chars) == [t |-> "str", v |-> chars]
PyInt(n) == [t |-> "int", v |-> <<n>>]
PyBool(b) == [t |-> "bool", v |-> <<b>>]
PyNone == [t |-> "NoneType", v |-> <<>>]
EmptyDict == PyDict(<<>>)

Digits == {"0", "1", "2", "3", "4", "5", "6", "7", "8", "9"}
DigitVal ==
    "0" :> 0 @@ "1" :> 1 @@ "2" :> 2 @@ "3" :> 3 @@ "4" :> 4 @@
    "5" :> 5 @@ "6" :> 6 @@ "7" :> 7 @@ "8" :> 8 @@ "9" :> 9

ParseFail == [ok |-> FALSE, val |-> PyNone, next |-> 0]
ParseOk(val, next) == [ok |-> TRUE, val |-> val, next |-> next]

CharAt(s, i) == IF i >= 1 /\ i <= Len(s) THEN s[i] ELSE "EOF"

RECURSIVE SkipWs(_, _)
SkipWs(s, i) == IF i <= Len(s) /\ IsSpace(s[i]) THEN SkipWs(s, i + 1) ELSE i

\* The characters of a string up to its closing quote; escapes are not
\* modelled, a backslash ends the parse with an error.
RECURSIVE ScanString(_, _, _)
ScanString(s, i, acc) ==
    IF i > Len(s) \/ s[i] = "\\" THEN ParseFail
    ELSE IF s[i] = "\"" THEN ParseOk(PyStr(acc), i + 1)
    ELSE ScanString(s, i + 1, Append(acc, s[i]))

RECURSIVE ScanDigits(_, _, _)
ScanDigits(s, i, acc) ==
    IF CharAt(s, i) \in Digits THEN ScanDigits(s, i + 1, 10 * acc + DigitVal[s[i]])
    ELSE ParseOk(PyInt(acc), i)

\* -?(?:0|[1-9]\d*)
ScanNumber(s, i) ==
    LET neg == CharAt(s, i) = "-"
        j == IF neg THEN i + 1 ELSE i
        r == IF CharAt(s, j) = "0" THEN ParseOk(PyInt(0), j + 1)
             ELSE IF CharAt(s, j) \in Digits THEN ScanDigits(s, j, 0)
             ELSE ParseFail
    IN IF r.ok /\ neg THEN ParseOk(PyInt(0 - r.val.v[1]), r.next) ELSE r

\* dict(pairs): a later member replaces an earlier one with the same key.
RECURSIVE RemoveKey(_, _)
RemoveKey(members, k) ==
    IF members = <<>> THEN <<>>
    ELSE IF Head(members).key = k THEN RemoveKey(Tail(members), k)
    ELSE <<Head(members)>> \o RemoveKey(Tail(members), k)

PutMember(members, k, val) == Append(RemoveKey(members, k), [key |-> k, value |-> val])

RECURSIVE ScanValue(_, _)
RECURSIVE ScanMembers(_, _, _)
RECURSIVE ScanElements(_, _, _)

\* One "key": value member at i, then "," and the next member, or "}".
ScanMembers(s, i, acc) ==
    IF CharAt(s, i) # "\"" THEN ParseFail
    ELSE LET k == ScanString(s, i + 1, <<>>) IN
         IF ~k.ok THEN ParseFail
         ELSE LET c == SkipWs(s, k.next) IN
              IF CharAt(s, c) # ":" THEN ParseFail
              ELSE LET val == ScanValue(s, SkipWs(s, c + 1)) IN
                   IF ~val.ok THEN ParseFail
                   ELSE LET e == SkipWs(s, val.next)
                            members == PutMember(acc, k.val.v, val.val)
                        IN IF CharAt(s, e) = "}" THEN ParseOk(PyDict(members), e + 1)
                           ELSE IF CharAt(s, e) = "," THEN ScanMembers(s, SkipWs(s, e + 1), members)
                           ELSE ParseFail

\* One element at i, then "," and the next element, or "]".
ScanElements(s, i, acc) ==
    LET val == ScanValue(s, i) IN
    IF ~val.ok THEN ParseFail
    ELSE LET e == SkipWs(s, val.next)
             elems == Append(acc, val.val)
         IN IF CharAt(s, e) = "]" THEN ParseOk(PyList(elems), e + 1)
            ELSE IF CharAt(s, e) = "," THEN ScanElements(s, SkipWs(s, e + 1), elems)
            ELSE ParseFail

ScanValue(s, i) ==
    LET c == CharAt(s, i) IN
    IF c = "{" THEN
        (IF CharAt(s, SkipWs(s, i + 1)) = "}" THEN ParseOk(EmptyDict, SkipWs(s, i + 1) + 1)
         ELSE ScanMembers(s, SkipWs(s, i + 1), <<>>))
    ELSE IF c = "[" THEN
        (IF CharAt(s, SkipWs(s, i + 1)) = "]" THEN ParseOk(PyList(<<>>), SkipWs(s, i + 1) + 1)
         ELSE ScanElements(s, SkipWs(s, i + 1), <<>>))
    ELSE IF c = "\"" THEN ScanString(s, i + 1, <<>>)
    ELSE IF c = "-" \/ c \in Digits THEN ScanNumber(s, i)
    ELSE IF StartsWith(Drop(s, i - 1), <<"n", "u", "l", "l">>) THEN ParseOk(PyNone, i + 4)
    ELSE IF StartsWith(Drop(s, i - 1), <<"t", "r", "u", "e">>) THEN ParseOk(PyBool(TRUE), i + 4)
    ELSE IF StartsWith(Drop(s, i - 1), <<"f", "a", "l", "s", "e">>) THEN ParseOk(PyBool(FALSE), i + 5)
    ELSE ParseFail

\* json.loads(s): one value between optional whitespace; anything after it
\* is "Extra data".  ok = FALSE stands for json.JSONDecodeError.
JsonLoads(s) ==
    LET r == ScanValue(s, SkipWs(s, 1)) IN
    IF r.ok /\ SkipWs(s, r.next) = Len(s) + 1 THEN r ELSE ParseFail

(***************************************************************************)
(* Inputs: uploaded documents, backend replies, the credential pool.       *)
(***************************************************************************)
Sessions == 1 .. NumSessions

\* Line 23: the pool read from GEMINI_API_KEYS.
GEMINI_API_KEYS == {"key1", "key2"}
NoKey == "unconfigured"

\* Line 245: the uploader accepts pdf, png, jpg, jpeg.  Session p uploads
\* its own document, identified by p; a PDF has 1..MaxPages pages.
PdfType == "application/pdf"
Uploads(p) ==
    {[id |-> p, type |-> PdfType, pages |-> n] : n \in 1 .. MaxPages}
        \cup {[id |-> p, type |-> "image/jpeg", pages |-> 1]}
NoUpload == [id |-> 0, type |-> "none", pages |-> 0]

\* The raster of page i of document d, and an absent file.
Page(d, i) == [doc |-> d, page |-> i]
NoFile == Page(0, 0)

\* Texts the backend may answer the JSON prompt with.
NL == <<"\n">>
Prose == <<"H", "i", ":">>
ObjEmpty == <<"{", "}">>
ObjA == <<"{", "\"", "a", "\"", ":", "1", "}">>
Truncated == <<"{", "\"", "a", "\"", ":", "1", ",">>
ListOne == <<"[", "1", "]">>
NullText == <<"n", "u", "l", "l">>
JsonObjects == {ObjEmpty, ObjA}
\* J in a code fence: the opening marker annotated or not, whitespace around.
Fenced(open, J) == open \o NL \o J \o NL \o Fence
FencedReplies(J) ==
    {Fenced(FenceJson, J), Fenced(Fence, J), NL \o Fenced(FenceJson, J) \o <<" ">>,
     NL \o Fenced(Fence, J) \o <<" ">>}
\* Prose, then J in an annotated fence.
ProseFenced(J) == Prose \o NL \o Fenced(FenceJson, J)
JsonReplies ==
    JsonObjects \cup {Truncated, ListOne, NullText, Prose}
        \cup FencedReplies(ObjA) \cup {ProseFenced(ObjA)}
NoText == <<"None">>

SummaryReplies == {"summary text"}
CsvReplies == {"csv text"}

\* Parts of a generate_content request: an image part (line 81) or a prompt.
ImagePart(data) == [mime_type |-> "image/png", data |-> data, text |-> ""]
PromptPart(name) == [mime_type |-> "text", data |-> NoFile, text |-> name]

(***************************************************************************)
(* Files of the shared working directory.                                  *)
(***************************************************************************)
\* f"page_{i+1}.png" (line 43), "temp_image.png" (line 77), and the
\* NamedTemporaryFile of a session (line 35), whose name is unique.
PagePath(i) == <<"page_png", i>>
TempImagePath == <<"temp_image_png", 0>>
TempPdfPath(p) == <<"tmp_pdf", p>>
Paths ==
    {PagePath(i) : i \in 1 .. MaxPages} \cup {TempImagePath}
        \cup {TempPdfPath(p) : p \in Sessions}

VARIABLES
    files,                  \* the working directory and the temp directory
    invalid_json_response,  \* invalid_json_response.txt exists (lines 176-177)
    api_key,                \* the key genai.configure installed (line 83)
    runs,                   \* clicks of "Process Invoice" so far
    pc,                     \* where each session's process_file stands
    file,                   \* process_file's argument
    conv_error,             \* line 49 logged a conversion error in this run
    images,                 \* the paths in `images`
    image_bytes_list,       \* line 81
    json_response,          \* json_response.text, until its last read (line 177)
    extracted_data,
    summary_text,
    csv_text,
    cleanup_i,              \* position of the loop of lines 182-184
    sent,                   \* the generate_content requests of this run
    key_selections,         \* calls of get_random_api_key in this run
    error                   \* the exception process_file raised

vars ==
    <<files, invalid_json_response, api_key, runs, pc, file, conv_error, images,
      image_bytes_list, json_response, extracted_data, summary_text, csv_text,
      cleanup_i, sent, key_selections, error>>

fsVars == <<files, invalid_json_response, runs>>
inputVars == <<file, conv_error, images, image_bytes_list>>
jsonVars == <<json_response, extracted_data, cleanup_i>>
textVars == <<summary_text, csv_text>>
callVars == <<api_key, sent, key_selections>>

NoError == "none"

Init ==
    /\ files = [f \in Paths |-> NoFile]
    /\ invalid_json_response = FALSE
    /\ api_key = NoKey
    /\ runs = 0
    /\ pc = [p \in Sessions |-> "idle"]
    /\ file = [p \in Sessions |-> NoUpload]
    /\ conv_error = [p \in Sessions |-> FALSE]
    /\ images = [p \in Sessions |-> <<>>]
    /\ image_bytes_list = [p \in Sessions |-> <<>>]
    /\ json_response = [p \in Sessions |-> NoText]
    /\ extracted_data = [p \in Sessions |-> PyNone]
    /\ summary_text = [p \in Sessions |-> ""]
    /\ csv_text = [p \in Sessions |-> ""]
    /\ cleanup_i = [p \in Sessions |-> 0]
    /\ sent = [p \in Sessions |-> <<>>]
    /\ key_selections = [p \in Sessions |-> 0]
    /\ error = [p \in Sessions |-> NoError]

\* process_file raises exc.
Raise(p, exc) ==
    /\ pc' = [pc EXCEPT ![p] = "failed"]
    /\ error' = [error EXCEPT ![p] = exc]

Goto(p, label) ==
    /\ pc' = [pc EXCEPT ![p] = label]
    /\ UNCHANGED error

Returned(p) == pc[p] \in {"done", "failed"}

(***************************************************************************)
(* main, lines 248-251: the button calls process_file(uploaded_file).      *)
(***************************************************************************)
ProcessFile(p) ==
    /\ pc[p] = "idle"
    /\ runs < MaxRuns
    /\ runs' = runs + 1
    /\ \E f \in Uploads(p) :
        /\ file' = [file EXCEPT ![p] = f]
        /\ pc' = [pc EXCEPT ![p] = IF f.type = PdfType THEN "tmp_write" ELSE "img_open"]
    /\ UNCHANGED <<files, invalid_json_response, conv_error, images, image_bytes_list, jsonVars, textVars,
                   callVars, error>>

\* Lines 253-273, or the exception reaching Streamlit: the script run ends,
\* its locals are gone, and the session waits for the next click.
ScriptEnd(p) ==
    /\ Returned(p)
    /\ pc' = [pc EXCEPT ![p] = "idle"]
    /\ file' = [file EXCEPT ![p] = NoUpload]
    /\ error' = [error EXCEPT ![p] = NoError]
    /\ conv_error' = [conv_error EXCEPT ![p] = FALSE]
    /\ images' = [images EXCEPT ![p] = <<>>]
    /\ image_bytes_list' = [image_bytes_list EXCEPT ![p] = <<>>]
    /\ json_response' = [json_response EXCEPT ![p] = NoText]
    /\ extracted_data' = [extracted_data EXCEPT ![p] = PyNone]
    /\ summary_text' = [summary_text EXCEPT ![p] = ""]
    /\ csv_text' = [csv_text EXCEPT ![p] = ""]
    /\ cleanup_i' = [cleanup_i EXCEPT ![p] = 0]
    /\ sent' = [sent EXCEPT ![p] = <<>>]
    /\ key_selections' = [key_selections EXCEPT ![p] = 0]
    /\ UNCHANGED <<fsVars, api_key>>

(***************************************************************************)
(* convert_pdf_to_images, lines 30-54.                                     *)
(***************************************************************************)
\* Lines 35-37.  When the write raises, the temporary file exists already
\* (delete=False) but temp_pdf_path is not bound: line 49 logs, and line 51
\* raises UnboundLocalError out of the finally block.
TempPdfWrite(p) ==
    /\ pc[p] = "tmp_write"
    /\ files' = [files EXCEPT ![TempPdfPath(p)] = Page(p, 0)]
    /\ \E ok \in BOOLEAN :
        IF ok
        THEN Goto(p, "convert") /\ UNCHANGED conv_error
        ELSE Raise(p, "UnboundLocalError") /\ conv_error' = [conv_error EXCEPT ![p] = TRUE]
    /\ UNCHANGED <<invalid_json_response, runs, file, images, image_bytes_list, jsonVars,
                   textVars, callVars>>

\* Line 40.  A corrupt PDF or a renderer crash raises; lines 48-49 catch and
\* log it and the function goes on to the finally block with images = [].
ConvertFromPath(p) ==
    /\ pc[p] = "convert"
    /\ \E ok \in BOOLEAN :
        IF ok
        THEN Goto(p, "save_page") /\ UNCHANGED conv_error
        ELSE Goto(p, "unlink") /\ conv_error' = [conv_error EXCEPT ![p] = TRUE]
    /\ UNCHANGED <<fsVars, file, images, image_bytes_list, jsonVars, textVars, callVars>>

\* Lines 42-46, one turn of the loop.  image.save raising (a full disk) is
\* caught by lines 48-49 as well; the pages saved so far stay in `images`.
SavePage(p) ==
    /\ pc[p] = "save_page"
    /\ LET i == Len(images[p]) + 1 IN
       \E ok \in BOOLEAN :
        IF ok
        THEN /\ files' = [files EXCEPT ![PagePath(i)] = Page(file[p].id, i)]
             /\ images' = [images EXCEPT ![p] = Append(@, PagePath(i))]
             /\ Goto(p, IF i = file[p].pages THEN "unlink" ELSE "save_page")
             /\ UNCHANGED conv_error
        ELSE /\ Goto(p, "unlink")
             /\ conv_error' = [conv_error EXCEPT ![p] = TRUE]
             /\ UNCHANGED <<files, images>>
    /\ UNCHANGED <<invalid_json_response, runs, file, image_bytes_list, jsonVars, textVars,
                   callVars>>

\* Lines 50-54: the finally block unlinks the temporary PDF and the function
\* returns `images`, whatever happened before.
UnlinkTempPdf(p) ==
    /\ pc[p] = "unlink"
    /\ files' = [files EXCEPT ![TempPdfPath(p)] = NoFile]
    /\ Goto(p, IF images[p] = <<>> THEN "configure" ELSE "read_bytes")
    /\ UNCHANGED <<invalid_json_response, runs, inputVars, jsonVars, textVars, callVars>>

(***************************************************************************)
(* process_file, lines 72-233.                                             *)
(***************************************************************************)
\* Line 76: Image.open raises on a file that is no image.
ImageOpen(p) ==
    /\ pc[p] = "img_open"
    /\ \E ok \in BOOLEAN :
        IF ok THEN Goto(p, "img_save") ELSE Raise(p, "UnidentifiedImageError")
    /\ UNCHANGED <<fsVars, inputVars, jsonVars, textVars, callVars>>

\* Lines 77-79.
ImageSave(p) ==
    /\ pc[p] = "img_save"
    /\ files' = [files EXCEPT ![TempImagePath] = Page(file[p].id, 1)]
    /\ images' = [images EXCEPT ![p] = <<TempImagePath>>]
    /\ Goto(p, "read_bytes")
    /\ UNCHANGED <<invalid_json_response, runs, file, conv_error, image_bytes_list, jsonVars,
                   textVars, callVars>>

\* Line 81 with image_to_bytes (lines 56-58), one path of the comprehension:
\* open() raises FileNotFoundError when the file is gone.
ImageToBytes(p) ==
    /\ pc[p] = "read_bytes"
    /\ LET i == Len(image_bytes_list[p]) + 1
           path == images[p][i]
       IN IF files[path] = NoFile
          THEN Raise(p, "FileNotFoundError") /\ UNCHANGED image_bytes_list
          ELSE /\ image_bytes_list' =
                      [image_bytes_list EXCEPT ![p] = Append(@, ImagePart(files[path]))]
               /\ Goto(p, IF i = Len(images[p]) THEN "configure" ELSE "read_bytes")
    /\ UNCHANGED <<fsVars, file, conv_error, images, jsonVars, textVars, callVars>>

\* Lines 27-28.
get_random_api_key == GEMINI_API_KEYS

\* Lines 83-84: genai.configure installs the key process-wide.
Configure(p) ==
    /\ pc[p] = "configure"
    /\ \E k \in get_random_api_key : api_key' = k
    /\ key_selections' = [key_selections EXCEPT ![p] = @ + 1]
    /\ Goto(p, "json_call")
    /\ UNCHANGED <<fsVars, inputVars, jsonVars, textVars, sent>>

\* A variant that reads the page files again for every request instead of
\* sending the bytes line 81 holds in memory.
RequestRereadingFiles(p, prompt) ==
    LET present == SelectSeq(images[p], LAMBDA f : files[f] # NoFile) IN
    [key |-> api_key,
     parts |-> [i \in 1 .. Len(present) |-> ImagePart(files[present[i]])]
                   \o <<PromptPart(prompt)>>]

\* model.generate_content(image_bytes_list + [prompt]) under the key that is
\* configured when the call is made.
Request(p, prompt) ==
    [key |-> api_key, parts |-> image_bytes_list[p] \o <<PromptPart(prompt)>>]

\* Line 162.  A backend error propagates out of process_file.
GenerateJson(p) ==
    /\ pc[p] = "json_call"
    /\ sent' = [sent EXCEPT ![p] = Append(@, Request(p, "json_prompt"))]
    /\ \/ \E r \in JsonReplies :
            /\ json_response' = [json_response EXCEPT ![p] = r]
            /\ Goto(p, "json_parse")
       \/ Raise(p, "BackendError") /\ UNCHANGED json_response
    /\ UNCHANGED <<fsVars, inputVars, extracted_data, cleanup_i, textVars, api_key,
                   key_selections>>

\* Lines 165-170: the sanitized text parses.
JsonParsed(p) ==
    /\ pc[p] = "json_parse"
    /\ JsonLoads(Sanitize(json_response[p])).ok
    /\ extracted_data' =
           [extracted_data EXCEPT ![p] = JsonLoads(Sanitize(json_response[p])).val]
    /\ json_response' = [json_response EXCEPT ![p] = NoText]
    /\ Goto(p, "summary_call")
    /\ UNCHANGED <<fsVars, inputVars, cleanup_i, textVars, callVars>>

\* A variant without the except block: the decode error leaves process_file.
JsonDecodeErrorReraised(p) ==
    /\ pc[p] = "json_parse"
    /\ ~JsonLoads(Sanitize(json_response[p])).ok
    /\ Raise(p, "JSONDecodeError")
    /\ UNCHANGED <<fsVars, inputVars, jsonVars, textVars, callVars>>

\* Lines 171-179: json.JSONDecodeError.
JsonDecodeError(p) ==
    /\ pc[p] = "json_parse"
    /\ ~JsonLoads(Sanitize(json_response[p])).ok
    /\ invalid_json_response' = TRUE
    /\ extracted_data' = [extracted_data EXCEPT ![p] = EmptyDict]
    /\ cleanup_i' = [cleanup_i EXCEPT ![p] = 1]
    /\ json_response' = [json_response EXCEPT ![p] = NoText]
    /\ Goto(p, IF images[p] = <<>> THEN "summary_call" ELSE "cleanup_exists")
    /\ UNCHANGED <<files, runs, inputVars, textVars, callVars>>

CleanupAdvance(p) ==
    /\ cleanup_i' = [cleanup_i EXCEPT ![p] = @ + 1]
    /\ Goto(p, IF cleanup_i[p] = Len(images[p]) THEN "summary_call" ELSE "cleanup_exists")

\* Line 183, inside the except block.
CleanupExists(p) ==
    /\ pc[p] = "cleanup_exists"
    /\ IF files[images[p][cleanup_i[p]]] # NoFile
       THEN Goto(p, "cleanup_remove") /\ UNCHANGED cleanup_i
       ELSE CleanupAdvance(p)
    /\ UNCHANGED <<fsVars, inputVars, json_response, extracted_data, textVars, callVars>>

\* Line 184: os.remove raises FileNotFoundError when the file went away
\* after line 183 saw it.
CleanupRemove(p) ==
    /\ pc[p] = "cleanup_remove"
    /\ LET path == images[p][cleanup_i[p]] IN
       IF files[path] # NoFile
       THEN /\ files' = [files EXCEPT ![path] = NoFile]
            /\ CleanupAdvance(p)
       ELSE /\ Raise(p, "FileNotFoundError")
            /\ UNCHANGED <<files, cleanup_i>>
    /\ UNCHANGED <<invalid_json_response, runs, inputVars, json_response, extracted_data,
                   textVars, callVars>>

\* A variant that selects and configures a credential of its own for the
\* summary call.
GenerateSummaryOwnKey(p) ==
    /\ pc[p] = "summary_call"
    /\ \E k \in get_random_api_key :
        /\ api_key' = k
        /\ sent' = [sent EXCEPT ![p] =
               Append(@, [key |-> k,
                          parts |-> image_bytes_list[p] \o <<PromptPart("summary_prompt")>>])]
    /\ key_selections' = [key_selections EXCEPT ![p] = @ + 1]
    /\ \/ \E r \in SummaryReplies :
            /\ summary_text' = [summary_text EXCEPT ![p] = r]
            /\ Goto(p, "csv_call")
       \/ Raise(p, "BackendError") /\ UNCHANGED summary_text
    /\ UNCHANGED <<fsVars, inputVars, jsonVars, csv_text>>

\* Lines 199-200.
GenerateSummary(p) ==
    /\ pc[p] = "summary_call"
    /\ sent' = [sent EXCEPT ![p] = Append(@, Request(p, "summary_prompt"))]
    /\ \/ \E r \in SummaryReplies :
            /\ summary_text' = [summary_text EXCEPT ![p] = r]
            /\ Goto(p, "csv_call")
       \/ Raise(p, "BackendError") /\ UNCHANGED summary_text
    /\ UNCHANGED <<fsVars, inputVars, jsonVars, csv_text, api_key, key_selections>>

\* Lines 230-233.
GenerateCsv(p) ==
    /\ pc[p] = "csv_call"
    /\ sent' = [sent EXCEPT ![p] = Append(@, Request(p, "csv_prompt"))]
    /\ \/ \E r \in CsvReplies :
            /\ csv_text' = [csv_text EXCEPT ![p] = r]
            /\ Goto(p, "done")
       \/ Raise(p, "BackendError") /\ UNCHANGED csv_text
    /\ UNCHANGED <<fsVars, inputVars, jsonVars, summary_text, api_key, key_selections>>

\* Line 233: the triple process_file returns.
Result(p) == <<extracted_data[p], summary_text[p], csv_text[p]>>

\* The steps inside process_file, and the end of the script run.
RunStep(p) ==
    \/ TempPdfWrite(p)
    \/ ConvertFromPath(p)
    \/ SavePage(p)
    \/ UnlinkTempPdf(p)
    \/ ImageOpen(p)
    \/ ImageSave(p)
    \/ ImageToBytes(p)
    \/ Configure(p)
    \/ GenerateJson(p)
    \/ JsonParsed(p)
    \/ JsonDecodeError(p)
    \/ CleanupExists(p)
    \/ CleanupRemove(p)
    \/ GenerateSummary(p)
    \/ GenerateCsv(p)
    \/ ScriptEnd(p)

\* Streamlit runs each session's script in a thread of its own: the steps of
\* the sessions interleave.
Next == \E p \in Sessions : ProcessFile(p) \/ RunStep(p)

Spec == Init /\ [][Next]_vars

\* One run at a time: process_file is entered only while every other
\* session is outside it.
Alone(p) == \A q \in Sessions \ {p} : pc[q] = "idle"

ProcessFileAlone(p) == Alone(p) /\ ProcessFile(p)

NextSeq == \E p \in Sessions : ProcessFileAlone(p) \/ RunStep(p)

SpecSeq == Init /\ [][NextSeq]_vars

(***************************************************************************)
(* Vocabulary of the properties.                                           *)
(***************************************************************************)
\* The orchestrator state a position of process_file belongs to.
Phase(label) ==
    CASE label \in {"tmp_write", "convert", "save_page", "unlink", "img_open",
                    "img_save", "read_bytes"} -> "NORMALIZING"
      [] label \in {"configure", "json_call", "json_parse", "cleanup_exists",
                    "cleanup_remove"} -> "EXTRACTING_JSON"
      [] label = "summary_call" -> "EXTRACTING_SUMMARY"
      [] label = "csv_call" -> "EXTRACTING_CSV"
      [] label = "done" -> "DONE"
      [] label = "failed" -> "FAILED"
      [] OTHER -> "IDLE"

\* The except block of lines 171-184 ran in this run.
ParseFailed(p) == cleanup_i[p] >= 1

\* Session p takes the step that parses its JSON reply.
ParseStep(p) == pc[p] = "json_parse" /\ pc'[p] # "json_parse"

\* The image parts of a whole document, in page order.
PagesOf(f) == [i \in 1 .. f.pages |-> ImagePart(Page(f.id, i))]

Prompts == <<"json_prompt", "summary_prompt", "csv_prompt">>

PromptsSent(requests) == [k \in 1 .. Len(requests) |-> requests[k].parts[Len(requests[k].parts)].text]

(***************************************************************************)
(* C1.  On every exit of process_file, returning or raising, every         *)
(* transient file the run created (its temporary PDF, its page_<i>.png,    *)
(* temp_image.png) is deleted.                                             *)
(***************************************************************************)
C1_TransientFilesReleased ==
    \A p \in Sessions :
        Returned(p) =>
            /\ files[TempPdfPath(p)] = NoFile
            /\ \A i \in 1 .. Len(images[p]) : files[images[p][i]] = NoFile

(***************************************************************************)
(* C2.  A rendering failure makes process_file fail: after the conversion  *)
(* error the run is in its finally block or has raised, and every request  *)
(* sent carries as many page images as the document has pages.             *)
(***************************************************************************)
C2_RenderFailureRaises ==
    \A p \in Sessions :
        /\ conv_error[p] => pc[p] \in {"unlink", "failed"}
        /\ \A k \in 1 .. Len(sent[p]) : Len(sent[p][k].parts) = file[p].pages + 1

(***************************************************************************)
(* C3.  Under any interleaving of two runs, every image a run sends to the *)
(* backend is a page of its own document, at its own position.             *)
(***************************************************************************)
C3_NoSharedState ==
    \A p \in Sessions :
        \A k \in 1 .. Len(sent[p]) :
            \A i \in 1 .. Len(sent[p][k].parts) - 1 :
                sent[p][k].parts[i].data = Page(file[p].id, i)

C5_RecordIsMapping ==
    \A p \in Sessions :
        (pc[p] = "done" /\ ~conv_error[p]) => extracted_data[p].t = "dict"

(***************************************************************************)
(* C6.  A reply of prose followed by a json-annotated fenced block holding *)
(* the object J is parsed to J.                                            *)
(***************************************************************************)
C6_ProsePrefixIgnored ==
    [][\A p \in Sessions : \A J \in JsonObjects :
        (ParseStep(p) /\ ~conv_error[p] /\ json_response[p] = ProseFenced(J)) =>
            extracted_data'[p] = JsonLoads(J).val
      ]_vars

(***************************************************************************)
(* C7.  A reply that is the object J in a fenced block, with or without    *)
(* the json annotation and with whitespace around it, is parsed to the     *)
(* same mapping as J itself.                                               *)
(***************************************************************************)
C7_FenceRoundTrip ==
    [][\A p \in Sessions : \A J \in JsonObjects :
        (ParseStep(p) /\ ~conv_error[p] /\ json_response[p] \in FencedReplies(J)) =>
            extracted_data'[p] = JsonLoads(J).val
      ]_vars

C9_FailedOnlyFromNormalizing ==
    [][\A p \in Sessions :
        /\ (pc[p] # "failed" /\ pc'[p] = "failed") => Phase(pc[p]) = "NORMALIZING"
        /\ conv_error[p] => sent'[p] = <<>>
      ]_vars

(***************************************************************************)
(* C10, as claimed.  A credential is selected for every backend call: a    *)
(* run has made as many selections as it has sent requests.                *)
(***************************************************************************)
C10_SelectionPerCall ==
    \A p \in Sessions : sent[p] # <<>> => key_selections[p] = Len(sent[p])

(***************************************************************************)
(* C10, amended.  A credential is selected once per run of process_file,   *)
(* before its first backend call, and every request of a run that no other *)
(* run overlaps carries that one credential.                               *)
(***************************************************************************)
C10_SelectionPerRun ==
    \A p \in Sessions :
        /\ key_selections[p] <= 1
        /\ sent[p] # <<>> =>
              /\ key_selections[p] = 1
              /\ \A k \in 1 .. Len(sent[p]) : sent[p][k].key = api_key

C10_Witness ==
    \E p \in Sessions : pc[p] = "done" /\ Len(sent[p]) = 3 /\ key_selections[p] = 1

=============================================================================
